---- MODULE Spec2Model ----
(***************************************************************************)
(* A model of robocrys.describe.adapter.DescriptionAdapter: a read-only   *)
(* view over a condensed structure with grouping and ordering queries.    *)
(*                                                                         *)
(* Conventions.  A Python str is a sequence of character codes, so that   *)
(* str comparison is the lexicographic comparison Python performs.  A     *)
(* float is the integer of its hundredths.  None is the value None below. *)
(* An argument of type Union[int, List[int]] is a tagged record.          *)
(***************************************************************************)
EXTENDS Integers, Sequences, FiniteSets, TLC

VARIABLES condensed_structure, use_iupac_ordering, elements, sym_labels,
          hashOrder, pc, call, ret

vars == <<condensed_structure, use_iupac_ordering, elements, sym_labels,
          hashOrder, pc, call, ret>>

(***************************************************************************)
(* Bounds of the model.                                                    *)
(***************************************************************************)
MaxNN == 3           \* longest neighbor list of a site
MaxMakeup == 3       \* longest component_makeup
MaxCompSites == 3    \* longest site list of a component
MaxArgLen == 2       \* longest list passed as to_sites / site_indices

\* Site indices and component indices of the structures of the model, and
\* an index absent from every table.
Idx == {0, 1, 2}
BadIdx == Cardinality(Idx)

None == <<-1>>

\* Sequences over S of length at most n.
SeqsUpTo(S, n) == UNION {[1 .. k -> S] : k \in 0 .. n}

RECURSIVE SumSeq(_)
SumSeq(s) == IF s = <<>> THEN 0 ELSE Head(s) + SumSeq(Tail(s))

Range(s) == {s[i] : i \in DOMAIN s}

\* list.count(x)
Count(s, x) == Cardinality({i \in DOMAIN s : s[i] = x})

\* [f(x) for x in s]
Map(s, f(_)) == [i \in DOMAIN s |-> f(s[i])]

RECURSIVE Flatten(_)
Flatten(ss) == IF ss = <<>> THEN <<>> ELSE Head(ss) \o Flatten(Tail(ss))

(***************************************************************************)
(* Python's ordering of ints, of str and of lists/tuples of ints.          *)
(***************************************************************************)
CmpInt(a, b) == IF a < b THEN -1 ELSE IF a > b THEN 1 ELSE 0

RECURSIVE CmpSeq(_, _)
CmpSeq(a, b) ==
    IF a = <<>> THEN (IF b = <<>> THEN 0 ELSE -1)
    ELSE IF b = <<>> THEN 1
    ELSE IF Head(a) # Head(b) THEN CmpInt(Head(a), Head(b))
    ELSE CmpSeq(Tail(a), Tail(b))

\* Lexicographic comparison of two key lists given as sequences of
\* per-position comparison results.
RECURSIVE CmpLex(_)
CmpLex(cs) ==
    IF cs = <<>> THEN 0
    ELSE IF Head(cs) # 0 THEN Head(cs)
    ELSE CmpLex(Tail(cs))

\* sorted(s, key=...): a stable sort; Less(a, b) is key(a) < key(b).
Sorted(s, Less(_, _)) ==
    LET RECURSIVE Insert(_, _)
        Insert(t, e) ==
            IF t = <<>> THEN <<e>>
            ELSE IF Less(e, Head(t)) THEN <<e>> \o t
            ELSE <<Head(t)>> \o Insert(Tail(t), e)
        RECURSIVE Sort(_)
        Sort(t) ==
            IF t = <<>> THEN <<>>
            ELSE Insert(Sort(SubSeq(t, 1, Len(t) - 1)), t[Len(t)])
    IN  Sort(s)

\* The keys of a defaultdict(list) filled by iterating over s, in insertion
\* order: the distinct values of key over s, by first occurrence.
DictKeys(s, key(_)) ==
    LET RECURSIVE Keys(_)
        Keys(t) ==
            IF t = <<>> THEN <<>>
            ELSE LET rest == Keys(SubSeq(t, 1, Len(t) - 1))
                     k == key(t[Len(t)])
                 IN  IF k \in Range(rest) THEN rest ELSE Append(rest, k)
    IN  Keys(s)

\* The list stored under key k of that dict.
DictGroup(s, key(_), k) == SelectSeq(s, LAMBDA e : key(e) = k)

(***************************************************************************)
(* str(int), ",".join(...) and "({})".format(...)                          *)
(***************************************************************************)
RECURSIVE IntToStr(_)
IntToStr(n) ==
    IF n < 10 THEN <<48 + n>>
    ELSE IntToStr(n \div 10) \o <<48 + (n % 10)>>

RECURSIVE Join(_, _)
Join(sep, strs) ==
    IF strs = <<>> THEN <<>>
    ELSE IF Len(strs) = 1 THEN strs[1]
    ELSE strs[1] \o sep \o Join(sep, Tail(strs))

FormatParens(body) == <<40>> \o body \o <<41>>

(***************************************************************************)
(* Accessor properties.                                                    *)
(***************************************************************************)
sites == condensed_structure.sites
distances == condensed_structure.distances
components == condensed_structure.components
component_makeup == condensed_structure.component_makeup

\* Iteration order of set(s) for a list s of indices: fixed by the
\* interpreter's hash table, not by the program.
SetIterWith(order, s) == SelectSeq(order, LAMBDA i : i \in Range(s))
SetIter(s) == SetIterWith(hashOrder, s)

IsInt(a) == a.kind = "int"
IntArg(i) == [kind |-> "int", v |-> i]
ListArg(l) == [kind |-> "list", v |-> l]
AsList(a) == IF IsInt(a) THEN <<a.v>> ELSE a.v

Returned(v) == [ok |-> TRUE, value |-> v]
KeyError == [ok |-> FALSE, value |-> "KeyError"]
NoCall == [op |-> "none"]
NoRet == [ok |-> FALSE, value |-> "none"]

(***************************************************************************)
(* get_el_sp(element).iupac_ordering and .X for the elements of the model. *)
(* The iupac values keep the sequence of IUPAC Table VI (C, H, O), X is    *)
(* the Pauling electronegativity in hundredths: C and H are ordered       *)
(* differently by the two scales.                                          *)
(***************************************************************************)
Elements == {"C", "H", "O"}
IupacOrdering(el) == CASE el = "C" -> 86 [] el = "H" -> 92 [] el = "O" -> 97
Electronegativity(el) == CASE el = "C" -> 255 [] el = "H" -> 220 [] el = "O" -> 344

(***************************************************************************)
(* get_sym_label                                                           *)
(***************************************************************************)
GetSymLabel(site_indices) ==
    LET IntLess(a, b) == a < b
        \* each stage is bound as a value before the next one reads it
        Stage1 == {Flatten(Map(AsList(site_indices), LAMBDA i : sites[i].sym_labels))}
        Stage2 == {Sorted(labels, IntLess) : labels \in Stage1}
        Stage3 == {Sorted(all_labels, IntLess) : all_labels \in Stage2}
        Stage4 == {Map(all_labels, IntToStr) : all_labels \in Stage3}
    IN  CHOOSE s \in {FormatParens(Join(<<44>>, strs)) : strs \in Stage4} : TRUE

(***************************************************************************)
(* _site_order and _component_order                                        *)
(***************************************************************************)
SiteOrderX(s) ==
    IF use_iupac_ordering THEN IupacOrdering(s.element)
    ELSE Electronegativity(s.element)

IsNeighborSiteDetails(s) == "sym_label" \in DOMAIN s

SiteOrderLess(a, b) ==
    IF IsNeighborSiteDetails(a)
    THEN CmpLex(<<CmpInt(SiteOrderX(a), SiteOrderX(b)),
                  CmpInt(a.count, b.count),
                  CmpSeq(a.sym_label, b.sym_label),
                  CmpSeq(a.sites, b.sites)>>) < 0
    ELSE CmpLex(<<CmpInt(SiteOrderX(a), SiteOrderX(b)),
                  CmpInt(a.count, b.count),
                  CmpSeq(a.sites, b.sites)>>) < 0

IsComponentDetails(c) == "orientation" \in DOMAIN c

Truthy(v) == v # None /\ v # <<>>

\* Faulty variant: another sentinel ("a") stands for an absent molecule name.
ComponentOrderMnOtherSentinel(c) ==
    IF Truthy(c.molecule_name) THEN c.molecule_name ELSE <<97>>

ComponentOrderMn(c) == IF Truthy(c.molecule_name) THEN c.molecule_name ELSE <<122>>

ComponentOrderOri(c) == IF Truthy(c.orientation) THEN c.orientation ELSE <<0, 0, 0>>

ComponentOrderCmp(a, b) ==
    IF IsComponentDetails(a)
    THEN CmpLex(<<CmpSeq(ComponentOrderMn(a), ComponentOrderMn(b)),
                  CmpInt(a.dimensionality, b.dimensionality),
                  CmpSeq(a.formula, b.formula),
                  CmpSeq(ComponentOrderOri(a), ComponentOrderOri(b)),
                  CmpInt(a.count, b.count)>>)
    ELSE CmpLex(<<CmpSeq(ComponentOrderMn(a), ComponentOrderMn(b)),
                  CmpInt(a.dimensionality, b.dimensionality),
                  CmpSeq(a.formula, b.formula),
                  CmpInt(a.count, b.count)>>)

ComponentOrderLess(a, b) == ComponentOrderCmp(a, b) < 0

(***************************************************************************)
(* get_nearest_neighbor_details                                            *)
(***************************************************************************)
\* Faulty variant: the identity keeps the labels whatever group_by_element says.
NNIdentityAlwaysLabels(nn_site, group_by_element) ==
    <<sites[nn_site].element, sites[nn_site].sym_labels>>

NNIdentity(nn_site, group_by_element) ==
    IF group_by_element THEN <<sites[nn_site].element>>
    ELSE <<sites[nn_site].element, sites[nn_site].sym_labels>>

\* Faulty variant: every distinct neighbor counts once.
NNEntriesCountOnce(nn_sites) ==
    Map(SetIter(nn_sites),
        LAMBDA nn_site : [count |-> 1,
                          labels |-> sites[nn_site].sym_labels,
                          site |-> nn_site])

NNEntries(nn_sites) ==
    Map(SetIter(nn_sites),
        LAMBDA nn_site : [count |-> Count(nn_sites, nn_site),
                          labels |-> sites[nn_site].sym_labels,
                          site |-> nn_site])

NNDetail(identity, nn_group) ==
    LET group_sites == Map(nn_group, LAMBDA e : e.site)
    IN  [element |-> identity[1],
         sites |-> group_sites,
         count |-> SumSeq(Map(nn_group, LAMBDA e : e.count)),
         sym_label |-> GetSymLabel(ListArg(group_sites))]

GetNearestNeighborDetails(site_index, group_by_element) ==
    LET nn_sites == sites[site_index].nn
        entries == NNEntries(nn_sites)
        ident(e) == NNIdentity(e.site, group_by_element)
        keys == DictKeys(entries, ident)
        nn_details == Map(keys, LAMBDA k : NNDetail(k, DictGroup(entries, ident, k)))
    IN  Sorted(nn_details, SiteOrderLess)

(***************************************************************************)
(* get_distance_details                                                    *)
(***************************************************************************)
\* Faulty variant: the listed sites are deduplicated before the lookup.
GetDistanceDetailsDeduplicated(from_site, to_sites) ==
    Flatten(Map(SetIter(AsList(to_sites)), LAMBDA t : distances[from_site][t]))

GetDistanceDetails(from_site, to_sites) ==
    Flatten(Map(AsList(to_sites), LAMBDA t : distances[from_site][t]))

(***************************************************************************)
(* get_component_details and get_component_groups                          *)
(***************************************************************************)
\* Faulty variant: every distinct component index counts once.
ComponentDetailsCountOnce(index) ==
    [count |-> 1,
     formula |-> components[index].formula,
     dimensionality |-> components[index].dimensionality,
     molecule_name |-> components[index].molecule_name,
     orientation |-> components[index].orientation,
     index |-> index]

ComponentDetailsOf(index) ==
    [count |-> Count(component_makeup, index),
     formula |-> components[index].formula,
     dimensionality |-> components[index].dimensionality,
     molecule_name |-> components[index].molecule_name,
     orientation |-> components[index].orientation,
     index |-> index]

GetComponentDetailsWith(order) ==
    Sorted(Map(SetIterWith(order, component_makeup), ComponentDetailsOf),
           ComponentOrderLess)

GetComponentDetails == GetComponentDetailsWith(hashOrder)

\* Faulty variant: the molecule name is left out of the identity.
ComponentIdentityNoName(component) ==
    <<component.dimensionality, component.formula, None>>

ComponentIdentity(component) ==
    <<component.dimensionality, component.formula, component.molecule_name>>

ComponentGroupOf(identity, group) ==
    [count |-> SumSeq(Map(group, LAMBDA c : c.count)),
     dimensionality |-> identity[1],
     formula |-> identity[2],
     molecule_name |-> identity[3],
     components |-> Sorted(group, ComponentOrderLess)]

GetComponentGroups ==
    LET component_details == GetComponentDetails
        keys == DictKeys(component_details, ComponentIdentity)
        component_group_details ==
            Map(keys, LAMBDA k : ComponentGroupOf(
                          k, DictGroup(component_details, ComponentIdentity, k)))
    IN  Sorted(component_group_details, ComponentOrderLess)

(***************************************************************************)
(* get_component_site_groups                                               *)
(***************************************************************************)
SiteGroupOf(comp_sites, element, group) ==
    [count |-> SumSeq(Map(group, LAMBDA site_index : Count(comp_sites, site_index))),
     element |-> element,
     sites |-> group]

GetComponentSiteGroups(component_index) ==
    LET comp_sites == components[component_index].sites
        el(site_index) == elements[site_index]
        keys == DictKeys(comp_sites, el)
        site_groups == Map(keys, LAMBDA k : SiteGroupOf(comp_sites, k,
                                                 DictGroup(comp_sites, el, k)))
    IN  Sorted(site_groups, SiteOrderLess)

(***************************************************************************)
(* Structures.                                                             *)
(***************************************************************************)
Site(element, nn, labels) == [element |-> element, nn |-> nn, sym_labels |-> labels]

Component(formula, dim, name, ori, comp_sites) ==
    [formula |-> formula, dimensionality |-> dim, molecule_name |-> name,
     orientation |-> ori, sites |-> comp_sites]

Structure(s, d, c, m) ==
    [sites |-> s, distances |-> d, components |-> c, component_makeup |-> m]

DefaultSites ==
    [i \in Idx |-> IF i = 0 THEN Site("C", <<1, 1, 2>>, <<1>>)
                   ELSE Site("O", <<0>>, <<i>>)]

DefaultDistances ==
    [i \in Idx |-> [j \in Idx |-> IF i = j THEN <<>> ELSE <<200 + 10 * j>>]]

DefaultComponents ==
    [i \in Idx |-> Component(<<65>>, 3, None, None, <<0, 1, 2>>)]

DefaultMakeup == <<0, 0, 1>>

IterOrders(S) ==
    {p \in [1 .. Cardinality(S) -> S] : \A x \in S : \E i \in DOMAIN p : p[i] = x}

Ascending == [i \in 1 .. Cardinality(Idx) |-> i - 1]

(***************************************************************************)
(* __init__: the state after construction.                                 *)
(***************************************************************************)
Construct(structure, iupac) ==
    /\ condensed_structure = structure
    /\ use_iupac_ordering = iupac
    /\ pc = "idle"
    /\ call = NoCall
    /\ ret = NoRet
    /\ elements = [site_index \in DOMAIN sites |-> sites[site_index].element]
    /\ sym_labels = [site_index \in DOMAIN sites |-> GetSymLabel(IntArg(site_index))]

\* Neighbor lists: the elements and labels of the sites and the neighbor
\* list of site 0 vary.
SiteKinds == {<<"C", <<1>>>>, <<"H", <<1>>>>, <<"H", <<2>>>>, <<"C", <<1, 2>>>>}

InitNN ==
    \E kind \in [Idx -> SiteKinds], nn \in SeqsUpTo(Idx, MaxNN),
       iupac \in BOOLEAN, order \in IterOrders(Idx) :
        /\ hashOrder = order
        /\ Construct(Structure(
               [i \in Idx |-> Site(kind[i][1], IF i = 0 THEN nn ELSE <<0>>, kind[i][2])],
               DefaultDistances, DefaultComponents, DefaultMakeup), iupac)

\* Symmetry labels: the label tuples of the sites vary.
LabelChoices == {<<>>, <<1>>, <<2>>, <<1, 2>>, <<2, 10>>}

InitSym ==
    \E labels \in [Idx -> LabelChoices] :
        /\ hashOrder = Ascending
        /\ Construct(Structure(
               [i \in Idx |-> Site(DefaultSites[i].element, DefaultSites[i].nn, labels[i])],
               DefaultDistances, DefaultComponents, DefaultMakeup), TRUE)

\* Components: the component table and the makeup vary.
ComponentKinds ==
    {Component(<<65>>, 3, None, None, <<0>>),
     Component(<<65>>, 3, <<122>>, None, <<0>>),
     Component(<<65>>, 3, <<97>>, <<1, 0, 0>>, <<0>>),
     Component(<<65>>, 3, None, <<0, 0, 0>>, <<0>>),
     Component(<<66>>, 3, None, <<1, 0, 0>>, <<0>>),
     Component(<<65>>, 0, <<122, 122>>, None, <<0>>)}

InitComp ==
    \E comps \in [Idx -> ComponentKinds], makeup \in SeqsUpTo(Idx, MaxMakeup),
       order \in IterOrders(Idx) :
        /\ hashOrder = order
        /\ Construct(Structure(DefaultSites, DefaultDistances, comps, makeup), TRUE)

\* Sites of a component: the elements of the sites and the site list of
\* component 0 vary.
InitSiteGroups ==
    \E els \in [Idx -> Elements], comp_sites \in SeqsUpTo(Idx, MaxCompSites),
       iupac \in BOOLEAN :
        /\ hashOrder = Ascending
        /\ Construct(Structure(
               [i \in Idx |-> Site(els[i], DefaultSites[i].nn, DefaultSites[i].sym_labels)],
               DefaultDistances,
               [i \in Idx |-> Component(<<65>>, 3, None, None,
                                        IF i = 0 THEN comp_sites ELSE <<i>>)],
               DefaultMakeup), iupac)

\* Distances: the distances recorded from site 0 vary.
DistanceChoices == {<<>>, <<210>>, <<300>>, <<300, 210>>}

InitDist ==
    \E row \in [Idx -> DistanceChoices] :
        /\ hashOrder = Ascending
        /\ Construct(Structure(
               DefaultSites,
               [i \in Idx |-> IF i = 0 THEN row ELSE DefaultDistances[i]],
               DefaultComponents, DefaultMakeup), TRUE)

Init == InitSym \/ InitSiteGroups \/ InitDist

(***************************************************************************)
(* The calls.  Each call runs to completion and leaves its result in ret;  *)
(* the caller then takes the result (Return).                              *)
(***************************************************************************)
IndexArgs == Idx \cup {BadIdx}
ListArgs == {IntArg(i) : i \in IndexArgs} \cup {ListArg(l) : l \in SeqsUpTo(Idx, MaxArgLen)}

Frame == UNCHANGED <<condensed_structure, use_iupac_ordering, elements,
                     sym_labels, hashOrder>>

CallGetNearestNeighborDetails ==
    /\ pc = "idle"
    /\ \E site_index \in IndexArgs, group_by_element \in BOOLEAN :
        /\ call' = [op |-> "get_nearest_neighbor_details", site_index |-> site_index,
                    group_by_element |-> group_by_element]
        /\ ret' = IF site_index \in DOMAIN sites
                  THEN Returned(GetNearestNeighborDetails(site_index, group_by_element))
                  ELSE KeyError
    /\ pc' = "returned"
    /\ Frame

CallGetDistanceDetails ==
    /\ pc = "idle"
    /\ \E from_site \in IndexArgs, to_sites \in ListArgs :
        /\ call' = [op |-> "get_distance_details", from_site |-> from_site,
                    to_sites |-> to_sites]
        /\ ret' = IF \A t \in Range(AsList(to_sites)) :
                         /\ from_site \in DOMAIN distances
                         /\ t \in DOMAIN distances[from_site]
                  THEN Returned(GetDistanceDetails(from_site, to_sites))
                  ELSE KeyError
    /\ pc' = "returned"
    /\ Frame

CallGetComponentDetails ==
    /\ pc = "idle"
    /\ call' = [op |-> "get_component_details"]
    /\ ret' = Returned(GetComponentDetails)
    /\ pc' = "returned"
    /\ Frame

CallGetComponentGroups ==
    /\ pc = "idle"
    /\ call' = [op |-> "get_component_groups"]
    /\ ret' = Returned(GetComponentGroups)
    /\ pc' = "returned"
    /\ Frame

\* Faulty variant: the component's site list is deduplicated in place.
CallGetComponentSiteGroupsInPlace ==
    /\ pc = "idle"
    /\ \E component_index \in IndexArgs :
        /\ call' = [op |-> "get_component_site_groups",
                    component_index |-> component_index]
        /\ ret' = IF component_index \in DOMAIN components
                  THEN Returned(GetComponentSiteGroups(component_index))
                  ELSE KeyError
        /\ condensed_structure' =
               IF component_index \in DOMAIN components
               THEN [condensed_structure EXCEPT
                        !.components[component_index].sites = SetIter(@)]
               ELSE condensed_structure
    /\ pc' = "returned"
    /\ UNCHANGED <<use_iupac_ordering, elements, sym_labels, hashOrder>>

CallGetComponentSiteGroups ==
    /\ pc = "idle"
    /\ \E component_index \in IndexArgs :
        /\ call' = [op |-> "get_component_site_groups",
                    component_index |-> component_index]
        /\ ret' = IF component_index \in DOMAIN components
                  THEN Returned(GetComponentSiteGroups(component_index))
                  ELSE KeyError
    /\ pc' = "returned"
    /\ Frame

CallGetSymLabel ==
    /\ pc = "idle"
    /\ \E site_indices \in ListArgs :
        /\ call' = [op |-> "get_sym_label", site_indices |-> site_indices]
        /\ ret' = IF \A i \in Range(AsList(site_indices)) : i \in DOMAIN sites
                  THEN Returned(GetSymLabel(site_indices))
                  ELSE KeyError
    /\ pc' = "returned"
    /\ Frame

Return ==
    /\ pc = "returned"
    /\ pc' = "idle"
    /\ call' = NoCall
    /\ ret' = NoRet
    /\ Frame

Next ==
    \/ CallGetNearestNeighborDetails
    \/ CallGetDistanceDetails
    \/ CallGetComponentDetails
    \/ CallGetComponentGroups
    \/ CallGetComponentSiteGroups
    \/ CallGetSymLabel
    \/ Return

Spec == Init /\ [][Next]_vars

NextNN == CallGetNearestNeighborDetails \/ Return
SpecNN == InitNN /\ [][NextNN]_vars

NextSym == CallGetSymLabel \/ Return
SpecSym == InitSym /\ [][NextSym]_vars

NextComp == CallGetComponentDetails \/ CallGetComponentGroups \/ Return
SpecComp == InitComp /\ [][NextComp]_vars

NextSiteGroups == CallGetComponentSiteGroups \/ Return
SpecSiteGroups == InitSiteGroups /\ [][NextSiteGroups]_vars

NextDist == CallGetDistanceDetails \/ Return
SpecDist == InitDist /\ [][NextDist]_vars

(***************************************************************************)
(* Properties.                                                             *)
(***************************************************************************)
Did(op) == pc = "returned" /\ call.op = op /\ ret.ok

\* The elements of a finite set of integers in ascending order.
AscendingSeq(S) ==
    CHOOSE s \in [1 .. Cardinality(S) -> S] :
        \A i, j \in 1 .. Cardinality(S) : i < j => s[i] < s[j]

\* The indices of the groups of a returned list that hold site index n.
GroupsHolding(groups, n) == {i \in DOMAIN groups : n \in Range(groups[i].sites)}

NoRepeat(s) == \A i, j \in DOMAIN s : i # j => s[i] # s[j]

(* C1: get_component_site_groups is a lossless fold: the count of each     *)
(* returned group is the number of entries of the component's site list    *)
(* whose element is the group's element, and the counts sum to the length  *)
(* of the site list, also when a site index is repeated in it.             *)
C1_SiteGroupsLosslessFold ==
    Did("get_component_site_groups") =>
        LET comp_sites == components[call.component_index].sites
            groups == ret.value
        IN  /\ \A i \in DOMAIN groups :
                   groups[i].count =
                       Cardinality({k \in DOMAIN comp_sites :
                                       sites[comp_sites[k]].element = groups[i].element})
            /\ SumSeq(Map(groups, LAMBDA g : g.count)) = Len(comp_sites)

(* C2: every sites list returned by get_component_site_groups holds no     *)
(* site index twice, and every site index of the component is in exactly   *)
(* one group.                                                              *)
C2_SiteGroupsDeduplicated ==
    Did("get_component_site_groups") =>
        LET comp_sites == components[call.component_index].sites
            groups == ret.value
        IN  /\ \A i \in DOMAIN groups : NoRepeat(groups[i].sites)
            /\ \A n \in Range(comp_sites) : Cardinality(GroupsHolding(groups, n)) = 1

UnionLabel(site_list) ==
    FormatParens(Join(<<44>>,
        Map(AscendingSeq(UNION {Range(sites[i].sym_labels) : i \in Range(site_list)}),
            IntToStr)))

(* C3: get_sym_label renders the union of the labels of the given sites,   *)
(* ascending and each label once; so does the sym_label of every group of  *)
(* get_nearest_neighbor_details.                                           *)
C3_SymLabelIsUnion ==
    /\ Did("get_sym_label") => ret.value = UnionLabel(AsList(call.site_indices))
    /\ Did("get_nearest_neighbor_details") =>
           \A i \in DOMAIN ret.value :
               ret.value[i].sym_label = UnionLabel(ret.value[i].sites)

(* C4: the counts of the groups of get_nearest_neighbor_details sum to the *)
(* length of the raw neighbor list, and every distinct neighbor is in the  *)
(* sites of exactly one group, for both values of group_by_element.        *)
C4_NeighborCountConservation ==
    Did("get_nearest_neighbor_details") =>
        LET nn_sites == sites[call.site_index].nn
            groups == ret.value
        IN  /\ SumSeq(Map(groups, LAMBDA g : g.count)) = Len(nn_sites)
            /\ \A n \in Range(nn_sites) : Cardinality(GroupsHolding(groups, n)) = 1
            /\ \A i \in DOMAIN groups : Range(groups[i].sites) \subseteq Range(nn_sites)

C4_Witness ==
    /\ Did("get_nearest_neighbor_details")
    /\ \E n \in Idx : Count(sites[call.site_index].nn, n) >= 2
    /\ Len(ret.value) >= 2

(* C5: get_component_details returns one record per distinct index of the  *)
(* makeup, with count the number of occurrences of the index; its counts   *)
(* and those of get_component_groups both sum to len(component_makeup).    *)
C5_ComponentCountConservation ==
    /\ Did("get_component_details") =>
           LET details == ret.value
           IN  /\ \A index \in Range(component_makeup) :
                      \E i \in DOMAIN details :
                          /\ details[i].index = index
                          /\ details[i].count = Count(component_makeup, index)
                          /\ \A j \in DOMAIN details : details[j].index = index => j = i
               /\ \A i \in DOMAIN details : details[i].index \in Range(component_makeup)
               /\ SumSeq(Map(details, LAMBDA c : c.count)) = Len(component_makeup)
    /\ Did("get_component_groups") =>
           SumSeq(Map(ret.value, LAMBDA g : g.count)) = Len(component_makeup)

C5_Witness ==
    /\ Did("get_component_groups")
    /\ \E index \in Idx : Count(component_makeup, index) >= 2
    /\ Len(ret.value) >= 2

(* C6: the order of the returned lists is a function of the wrapped input  *)
(* and the call arguments alone: whatever order the deduplicating set is   *)
(* enumerated in, get_component_details returns the same list.             *)
C6_OrderIndependentOfSetIteration ==
    Did("get_component_details") =>
        \A order \in IterOrders(Idx) : ret.value = GetComponentDetailsWith(order)

NameKey(c) == IF c.molecule_name = None THEN <<122>> ELSE c.molecule_name

OrientationKey(c) == IF c.orientation = None THEN <<0, 0, 0>> ELSE c.orientation

DetailsKeyLeq(a, b) ==
    CmpLex(<<CmpSeq(NameKey(a), NameKey(b)),
             CmpInt(a.dimensionality, b.dimensionality),
             CmpSeq(a.formula, b.formula),
             CmpSeq(OrientationKey(a), OrientationKey(b)),
             CmpInt(a.count, b.count)>>) <= 0

GroupKeyLeq(a, b) ==
    CmpLex(<<CmpSeq(NameKey(a), NameKey(b)),
             CmpInt(a.dimensionality, b.dimensionality),
             CmpSeq(a.formula, b.formula),
             CmpInt(a.count, b.count)>>) <= 0

NonDecreasing(s, Leq(_, _)) == \A i, j \in DOMAIN s : i < j => Leq(s[i], s[j])

SameButName(a, b) ==
    /\ a.molecule_name = None
    /\ b.molecule_name = <<122>>
    /\ a.dimensionality = b.dimensionality
    /\ a.formula = b.formula
    /\ a.orientation = b.orientation
    /\ a.count = b.count

(* C7: get_component_details, get_component_groups and the components of   *)
(* every group are in non-decreasing order of the key [molecule name,      *)
(* dimensionality, formula, orientation, count] (groups: without           *)
(* orientation), an absent name compared as "z" and an absent orientation  *)
(* as (0,0,0); a record with absent name has the key of the same record    *)
(* named "z".                                                              *)
C7_ComponentsSorted ==
    /\ Did("get_component_details") =>
           /\ NonDecreasing(ret.value, DetailsKeyLeq)
           /\ \A a, b \in Range(ret.value) :
                  SameButName(a, b) => ComponentOrderCmp(a, b) = 0
    /\ Did("get_component_groups") =>
           /\ NonDecreasing(ret.value, GroupKeyLeq)
           /\ \A i \in DOMAIN ret.value :
                  NonDecreasing(ret.value[i].components, DetailsKeyLeq)

C7_Witness ==
    /\ Did("get_component_details")
    /\ Len(ret.value) = 3
    /\ \E a, b \in Range(ret.value) : SameButName(a, b)
    /\ \E c \in Range(ret.value) : c.molecule_name = <<97>>

(* C8: with group_by_element=True get_nearest_neighbor_details returns at  *)
(* most as many groups as with False, the same total count, and no two     *)
(* groups of the same element.                                             *)
C8_GroupByElementCollapses ==
    (Did("get_nearest_neighbor_details") /\ call.group_by_element) =>
        LET merged == ret.value
            split == GetNearestNeighborDetails(call.site_index, FALSE)
        IN  /\ Len(merged) <= Len(split)
            /\ SumSeq(Map(merged, LAMBDA g : g.count))
                   = SumSeq(Map(split, LAMBDA g : g.count))
            /\ \A i, j \in DOMAIN merged :
                   merged[i].element = merged[j].element => i = j

C8_Witness ==
    /\ Did("get_nearest_neighbor_details")
    /\ call.group_by_element
    /\ Len(ret.value) = 2
    /\ Len(GetNearestNeighborDetails(call.site_index, FALSE)) = 3

Identity(r) == <<r.dimensionality, r.formula, r.molecule_name>>

(* C9: get_component_groups partitions the records of                      *)
(* get_component_details by (dimensionality, formula, molecule name):      *)
(* every record is in exactly one group, the members of a group share its  *)
(* identity, no two groups share an identity, a group's count is the sum   *)
(* of its members' counts, and each group holds exactly the records of     *)
(* its identity, in the order of get_component_details.                    *)
C9_GroupsPartitionDetails ==
    Did("get_component_groups") =>
        LET details == GetComponentDetails
            groups == ret.value
        IN  /\ \A d \in Range(details) :
                   Cardinality({i \in DOMAIN groups :
                                   d \in Range(groups[i].components)}) = 1
            /\ \A i \in DOMAIN groups :
                   /\ groups[i].components =
                          SelectSeq(details, LAMBDA d : Identity(d) = Identity(groups[i]))
                   /\ groups[i].components # <<>>
                   /\ groups[i].count =
                          SumSeq(Map(groups[i].components, LAMBDA d : d.count))
            /\ \A i, j \in DOMAIN groups :
                   Identity(groups[i]) = Identity(groups[j]) => i = j

C9_Witness ==
    /\ Did("get_component_groups")
    /\ Len(ret.value) = 2
    /\ \E i \in DOMAIN ret.value :
           /\ Len(ret.value[i].components) = 2
           /\ ret.value[i].components[1].orientation
                  # ret.value[i].components[2].orientation
    /\ \E i, j \in DOMAIN ret.value :
           /\ ret.value[i].molecule_name = None
           /\ ret.value[j].molecule_name = <<122>>

RECURSIVE DistanceOffset(_, _, _)
DistanceOffset(from_site, to_list, k) ==
    IF k = 1 THEN 0
    ELSE DistanceOffset(from_site, to_list, k - 1)
             + Len(distances[from_site][to_list[k - 1]])

(* C10: get_distance_details returns, for each entry of to_sites in the    *)
(* given order, the distances recorded from from_site to it, once per      *)
(* occurrence; a single integer gives what the one-element list gives.     *)
C10_DistancesConcatenated ==
    Did("get_distance_details") =>
        LET from_site == call.from_site
            to_list == AsList(call.to_sites)
        IN  /\ Len(ret.value) = DistanceOffset(from_site, to_list, Len(to_list) + 1)
            /\ \A k \in DOMAIN to_list :
                   \A m \in DOMAIN distances[from_site][to_list[k]] :
                       ret.value[DistanceOffset(from_site, to_list, k) + m]
                           = distances[from_site][to_list[k]][m]
            /\ IsInt(call.to_sites) =>
                   ret.value = GetDistanceDetails(from_site, ListArg(<<call.to_sites.v>>))

C10_Witness ==
    /\ Did("get_distance_details")
    /\ ~IsInt(call.to_sites)
    /\ Len(call.to_sites.v) = 2
    /\ call.to_sites.v[1] = call.to_sites.v[2]
    /\ Len(distances[call.from_site][call.to_sites.v[1]]) = 2
    /\ ret.value[1] # ret.value[2]

\* The caches hold what __init__ computes from the wrapped structure.
CachesConsistent ==
    /\ DOMAIN elements = DOMAIN sites
    /\ DOMAIN sym_labels = DOMAIN sites
    /\ \A i \in DOMAIN sites :
           /\ elements[i] = sites[i].element
           /\ sym_labels[i] = GetSymLabel(IntArg(i))

(* C11: after construction no step of any sequence of calls, failing ones  *)
(* included, changes the wrapped structure, use_iupac_ordering or the two  *)
(* caches, and in every reachable state elements[i] is the element of site *)
(* i and sym_labels[i] is get_sym_label(i).                                *)
C11_ReadOnlyView ==
    /\ [][UNCHANGED <<condensed_structure, use_iupac_ordering, elements,
                      sym_labels>>]_vars
    /\ []CachesConsistent

\* A call that failed with a lookup error has just returned, on a structure
\* with a non-empty component and a site of several symmetry labels or of
\* several neighbors.
C11_Witness ==
    /\ pc = "returned"
    /\ ret = KeyError
    /\ call.op = "get_component_site_groups"
    /\ \E i \in DOMAIN sites : Len(sites[i].sym_labels) + Len(sites[i].nn) >= 3
    /\ CachesConsistent

====
